---- MODULE Spec2Model ----
(***************************************************************************)
(* Model of control/obc.py (python-control): the OptimalControlProblem     *)
(* class, its cost and constraint evaluation, the solve entry points       *)
(* compute_trajectory / mpc / __call__, and the polytope constraint        *)
(* factories.                                                              *)
(*                                                                         *)
(* Conventions.  A vector is a sequence of integers, a matrix a sequence   *)
(* of rows.  A Python call that may raise returns a record                 *)
(* [exc, val]: exc = "none" and the value, or the exception's class name.  *)
(* Python's None is the empty tuple.  -numpy.inf is the integer NegInf.    *)
(***************************************************************************)
EXTENDS Integers, Sequences, FiniteSets, TLC

----------------------------------------------------------------------------
(* Bounds of the model *)

\* longest time grid
MaxN == 2
\* most trajectory constraints passed to the constructor
MaxTraj == 2
\* most terminal constraints passed to the constructor
MaxTerm == 1
\* the most entry-point calls, and evaluations, a counted run makes
MaxCalls == 2
MaxEvals == 2

\* values a candidate input sample may take
InputValues == {0, 1}
\* values of the initial state handed to a solve
StateValues == {1, 2}

----------------------------------------------------------------------------
(* Python / numpy primitives *)

\* stands for -numpy.inf in bound vectors
NegInf == -99

None == <<>>

Ok(v) == [exc |-> "none", val |-> v]
Raise(e) == [exc |-> e, val |-> None]

RECURSIVE SumSeq(_)
SumSeq(s) == IF s = <<>> THEN 0 ELSE Head(s) + SumSeq(Tail(s))

\* v @ w for two vectors
Dot(v, w) == SumSeq([k \in 1..Len(v) |-> v[k] * w[k]])

\* numpy.dot(A, v) / A @ v for a matrix and a vector; numpy raises
\* ValueError when the shapes are not aligned
MatVec(A, v) ==
    IF \E r \in 1..Len(A) : Len(A[r]) # Len(v)
    THEN Raise("ValueError")
    ELSE Ok([r \in 1..Len(A) |-> Dot(A[r], v)])

\* M[:, i] with i counted from 1
Col(M, i) == [r \in 1..Len(M) |-> M[r][i]]

\* LastCol reading the first column instead
LastCol_First(M) == Col(M, 1)

\* M[:, -1]
LastCol(M) == Col(M, Len(M[1]))

\* M.transpose() of a matrix with ncols columns
Transpose(M) == [c \in 1..Len(M[1]) |-> Col(M, c)]

\* flat.reshape((nrows, ncols)), row-major
Reshape(flat, nrows, ncols) ==
    [r \in 1..nrows |-> [c \in 1..ncols |-> flat[(r - 1) * ncols + c]]]

\* numpy.zeros((nrows, ncols))
Zeros(nrows, ncols) == [r \in 1..nrows |-> [c \in 1..ncols |-> 0]]

\* numpy.full(n, v)
Full(n, v) == [k \in 1..n |-> v]

\* numpy.hstack of two matrices with the same number of rows
HStackMat(A, B) == [r \in 1..Len(A) |-> A[r] \o B[r]]

RECURSIVE Flatten(_)
Flatten(list) ==
    IF list = <<>> THEN <<>> ELSE Head(list) \o Flatten(Tail(list))

\* numpy.hstack of a list of vectors: numpy raises ValueError
\* ("need at least one array to concatenate") on an empty list
HStack(list) ==
    IF list = <<>> THEN Raise("ValueError") ELSE Ok(Flatten(list))

----------------------------------------------------------------------------
(* The plant (control.iosys, outside this file) *)

Systems ==
    { [nstates |-> 2, ninputs |-> 1] }

\* one step of the plant: x1 <- x1 + sum_k k*u_k, the other states shift
updfcn(sys, x, u) ==
    [j \in 1..sys.nstates |->
        IF j = 1
        THEN x[1] + SumSeq([k \in 1..Len(u) |-> k * u[k]])
        ELSE x[j - 1]]

RECURSIVE SimStates(_, _, _, _)
\* the state samples x[k..N] as a sequence of state vectors
SimStates(sys, U, xk, k) ==
    IF k > Len(U[1]) THEN <<>>
    ELSE <<xk>> \o SimStates(sys, U, updfcn(sys, xk, Col(U, k)), k + 1)

\* ct.input_output_response(sys, T, U, X0, return_x=True)[2]:
\* the (nstates x N) state trajectory
input_output_response(sys, T, U, X0) ==
    LET samples == SimStates(sys, U, X0, 1)
    IN  [j \in 1..sys.nstates |-> [k \in 1..Len(T) |-> samples[k][j]]]

\* sys._out(t, x, u): the plant's output map (one output)
_out(sys, t, x, u) == <<x[1] + u[1] + t>>

----------------------------------------------------------------------------
(* Constraint descriptors and their factories *)

\* A descriptor is the tuple (type, fun, lb, ub).  fun is a record: for a
\* linear constraint name = "matrix" and A is the matrix; for the closure
\* made by output_poly_constraint name = "_evaluate_output_constraint" and
\* A is the captured polytope.A.
Matrix(M) == [name |-> "matrix", A |-> M]

\* state_poly_constraint with the zero block in front of polytope.A
state_poly_constraint_ZerosFirst(sys, polytope) ==
    [type |-> "LinearConstraint",
     fun  |-> Matrix(HStackMat(Zeros(Len(polytope.A), sys.ninputs),
                               polytope.A)),
     lb   |-> Full(Len(polytope.A), NegInf),
     ub   |-> polytope.b]

state_poly_constraint(sys, polytope) ==
    [type |-> "LinearConstraint",
     fun  |-> Matrix(HStackMat(polytope.A,
                               Zeros(Len(polytope.A), sys.ninputs))),
     lb   |-> Full(Len(polytope.A), NegInf),
     ub   |-> polytope.b]

input_poly_constraint(sys, polytope) ==
    [type |-> "LinearConstraint",
     fun  |-> Matrix(HStackMat(Zeros(Len(polytope.A), sys.nstates),
                               polytope.A)),
     lb   |-> Full(Len(polytope.A), NegInf),
     ub   |-> polytope.b]

output_poly_constraint(sys, polytope) ==
    [type |-> "NonlinearConstraint",
     fun  |-> [name |-> "_evaluate_output_constraint", A |-> polytope.A],
     lb   |-> Full(Len(polytope.A), NegInf),
     ub   |-> polytope.b]

\* _evaluate_output_constraint splitting the stacked vector after the
\* first ninputs entries instead of the first nstates
_evaluate_output_constraint_SplitAtInputs(sys, A, v) ==
    LET states  == SubSeq(v, 1, sys.ninputs)
        inputs  == SubSeq(v, sys.ninputs + 1, Len(v))
        outputs == _out(sys, 0, states, inputs)
    IN  MatVec(A, outputs)

\* the closure of output_poly_constraint applied to a stacked vector v
_evaluate_output_constraint(sys, A, v) ==
    LET states  == SubSeq(v, 1, sys.nstates)
        inputs  == SubSeq(v, sys.nstates + 1, Len(v))
        outputs == _out(sys, 0, states, inputs)
    IN  MatVec(A, outputs)

\* a unit row of width n with value v in column 1
UnitRow(n, v) == [c \in 1..n |-> IF c = 1 THEN v ELSE 0]

\* polytopes of the callers: x1 <= 5, |u1| <= 1, y1 <= 7
StatePolytope(sys) == [A |-> <<UnitRow(sys.nstates, 1)>>, b |-> <<5>>]
InputPolytope(sys) ==
    [A |-> <<UnitRow(sys.ninputs, 1), UnitRow(sys.ninputs, -1)>>,
     b |-> <<1, 1>>]
OutputPolytope == [A |-> <<<<1>>>>, b |-> <<7>>]

\* a descriptor whose type is neither of the two known kinds
UnknownKind(sys) ==
    [type |-> "Bounds",
     fun  |-> Matrix(<<UnitRow(sys.nstates + sys.ninputs, 1)>>),
     lb   |-> <<-3>>,
     ub   |-> <<3>>]

\* the descriptors a caller passes to the constructor
Catalogue(sys) ==
    << state_poly_constraint(sys, StatePolytope(sys)),
       input_poly_constraint(sys, InputPolytope(sys)),
       output_poly_constraint(sys, OutputPolytope),
       UnknownKind(sys) >>

\* n consecutive descriptors of the catalogue from position r + 1 on,
\* wrapping around
Window(cat, r, n) == [k \in 1..n |-> cat[((k - 1 + r) % Len(cat)) + 1]]

\* the pairs <<trajectory constraints, terminal constraints>> a caller
\* passes: a window of the catalogue, split in two
ConstraintArgs(sys) ==
    LET cat == Catalogue(sys)
    IN  { <<Window(cat, r, nt), Window(cat, r + nt, ne)>> :
            r \in 0..(Len(cat) - 1), nt \in 0..MaxTraj, ne \in 0..MaxTerm }

\* polytopes handed to the factories, of every width up to 2
Polytopes ==
    { [A |-> <<UnitRow(w, 1)>>, b |-> <<5>>] : w \in 1..2 }
    \cup { [A |-> <<UnitRow(w, 1), UnitRow(w, -1)>>, b |-> <<1, 1>>] :
             w \in 1..2 }

----------------------------------------------------------------------------
(* Cost descriptors *)

\* the callable returned by quadratic_cost, as the pair (Q, R)
quadratic_cost(sys, Q, R) == [Q |-> Q, R |-> R]

\* terminal_cost=None
NoCost == [Q |-> <<>>, R |-> <<>>]

\* q times the n x n identity
Diag(n, q) == [r \in 1..n |-> [c \in 1..n |-> IF r = c THEN q ELSE 0]]

\* v @ M for a vector and a matrix
VecMat(v, M) ==
    [c \in 1..Len(M[1]) |-> SumSeq([r \in 1..Len(v) |-> v[r] * M[r][c]])]

\* lambda x, u: x @ Q @ x + u @ R @ u
CallCost(cost, xv, uv) ==
    Dot(VecMat(xv, cost.Q), xv) + Dot(VecMat(uv, cost.R), uv)

IntegralCosts(sys) ==
    { quadratic_cost(sys, Diag(sys.nstates, 1), Diag(sys.ninputs, 1)) }

TerminalCosts(sys) ==
    { NoCost,
      quadratic_cost(sys, Diag(sys.nstates, 3), Diag(sys.ninputs, 2)) }

----------------------------------------------------------------------------
(* State *)

VARIABLES
    system,                 \* the plant the caller works with
    phase,                  \* "new", "ready" (constructed), "failed"
    time_vector,            \* self.time_vector
    integral_cost,          \* self.integral_cost
    trajectory_constraints, \* self.trajectory_constraints
    terminal_cost,          \* self.terminal_cost
    terminal_constraints,   \* self.terminal_constraints
    constraint_lb,          \* self.constraint_lb
    constraint_ub,          \* self.constraint_ub
    initial_guess,          \* self.initial_guess
    x,                      \* self.x, Unset until the first solve
    frame,                  \* the solve in progress, NoFrame when idle
    ev,                     \* the last cost / constraint evaluation
    ret,                    \* the outcome of the last finished call
    hist,                   \* counts of calls, solver runs, simulations
    threads,                \* the solves concurrent callers have running
    race                    \* whose evaluation ev is, under concurrency

fields == <<time_vector, integral_cost, trajectory_constraints,
            terminal_cost, terminal_constraints>>
derived == <<constraint_lb, constraint_ub, initial_guess>>
aux == <<hist, threads, race>>
vars == <<system, phase, fields, derived, x, frame, ev, ret, aux>>

\* an attribute that has not been assigned
Unset == <<>>

\* values of the squeeze keyword: the default None, and True
SqueezeValues == {"None", "True"}

\* frame.squeeze is the entry point's own squeeze keyword, frame.passed the
\* one compute_trajectory runs with, frame.guess the starting point
\* handed to the solver
NoFrame == [entry |-> "idle", x |-> <<>>, return_x |-> FALSE,
            squeeze |-> "None", passed |-> "None", guess |-> <<>>]

\* ret.packaged when _process_time_response has not been called
NotPackaged == "not called"
NoEv == [fn |-> "none", inputs |-> <<>>, x |-> <<>>, exc |-> "none",
         val |-> <<>>, segments |-> <<>>, calls |-> <<>>]
\* res is what sp.optimize.minimize returned to the call, NoRes if it
\* returned nothing; sims counts the plant simulations the call's own
\* code ran (those of the solver's callbacks are not included)
NoRes == [success |-> FALSE, message |-> "", x |-> <<>>]
NoRet == [op |-> "none", arg |-> <<>>, exc |-> "none", val |-> None,
          warnings |-> <<>>, res |-> NoRes, sims |-> 0,
          squeeze |-> "None", packaged |-> NotPackaged]

Returned(op, arg, r, warnings, res, sims) ==
    [op |-> op, arg |-> arg, exc |-> r.exc, val |-> r.val,
     warnings |-> warnings, res |-> res, sims |-> sims,
     squeeze |-> "None", packaged |-> NotPackaged]

\* hist counts, while hist.on: the entry-point calls, the solver runs,
\* the evaluations made with self.x set, the plant simulations, the
\* successful calls that asked for the states; last_x is the initial state
\* the latest call was given, prev_x is self.x as that call found it
HistOff == [on |-> FALSE, calls |-> 0, solves |-> 0, evals |-> 0,
            sims |-> 0, wanted |-> 0, last_x |-> <<>>, prev_x |-> <<>>]
HistOn == [HistOff EXCEPT !.on = TRUE]

\* the callers of the concurrent runs
Threads == {1, 2}

\* threads[t]: the solve of caller t; overwritten once another caller's
\* solve has assigned self.x after it, by the value that solve assigned
NoThread == [active |-> FALSE, x |-> <<>>, overwritten |-> FALSE,
             by |-> <<>>]
NoThreads == [t \in Threads |-> NoThread]

\* race: the caller whose solve made the evaluation in ev, and that
\* solve's thread record at the time
NoRace == [owner |-> 0, solve |-> NoThread]

\* the time grids 0, 1, ..., N-1
TimeGrids == { [k \in 1..N |-> k - 1] : N \in 1..MaxN }

\* flat candidate input vectors for the current problem
Candidates ==
    [1..(system.ninputs * Len(time_vector)) -> InputValues]

\* initial states handed to a solve
InitialStates == { Full(system.nstates, v) : v \in StateValues }

----------------------------------------------------------------------------
(* OptimalControlProblem.__init__ : stacking the bounds *)

Bound(constraint, which) ==
    IF which = "lb" THEN constraint.lb ELSE constraint.ub

RECURSIVE AppendBounds(_, _, _)
\* the inner loop: one bound vector per constraint, in list order
AppendBounds(constraints, which, acc) ==
    IF constraints = <<>> THEN acc
    ELSE AppendBounds(Tail(constraints), which,
                      Append(acc, Bound(Head(constraints), which)))

\* StackOverTime with the loop over the time points dropped: the
\* trajectory bounds are appended once instead of once per time point
StackOverTime_Once(time, constraints, which, acc) ==
    AppendBounds(constraints, which, acc)

RECURSIVE StackOverTime(_, _, _, _)
\* the outer loop over the time points
StackOverTime(time, constraints, which, acc) ==
    IF time = <<>> THEN acc
    ELSE StackOverTime(Tail(time), constraints, which,
                       AppendBounds(constraints, which, acc))

\* the list constraint_lb / constraint_ub before numpy.hstack
BoundList(time, trajectory, terminal, which) ==
    AppendBounds(terminal, which,
                 StackOverTime(time, trajectory, which, <<>>))

StackedBounds(time, trajectory, terminal, which) ==
    HStack(BoundList(time, trajectory, terminal, which))

__init__(time, cost, trajectory, tcost, terminal) ==
    LET lb == StackedBounds(time, trajectory, terminal, "lb")
        ub == StackedBounds(time, trajectory, terminal, "ub")
        failed == IF lb.exc # "none" THEN lb
                  ELSE IF ub.exc # "none" THEN ub ELSE Ok(None)
    IN
    /\ phase = "new"
    /\ time_vector' = time
    /\ integral_cost' = cost
    /\ trajectory_constraints' = trajectory
    /\ terminal_cost' = tcost
    /\ terminal_constraints' = terminal
    /\ IF failed.exc # "none"
       THEN /\ phase' = "failed"
            /\ UNCHANGED derived
       ELSE /\ phase' = "ready"
            /\ constraint_lb' = lb.val
            /\ constraint_ub' = ub.val
            /\ initial_guess' = Full(system.ninputs * Len(time), 0)
    /\ ret' = Returned("__init__", <<>>, failed, <<>>, NoRes, 0)
    /\ UNCHANGED <<system, x, frame, ev, aux>>

----------------------------------------------------------------------------
(* cost_function *)

RECURSIVE TrajectoryCost(_, _, _, _)
\* for i, time in enumerate(self.time_vector): cost += integral_cost(...)
TrajectoryCost(states, U, i, cost) ==
    IF i > Len(time_vector) THEN cost
    ELSE TrajectoryCost(states, U, i + 1,
             cost + CallCost(integral_cost, Col(states, i), Col(U, i)))

\* the record left in ev by one evaluation
Evaluation(fn, inputs, r, segments, calls) ==
    [fn |-> fn, inputs |-> inputs, x |-> x, exc |-> r.exc, val |-> r.val,
     segments |-> segments, calls |-> calls]

\* cost_function simulating from the origin while self.x is unset
cost_function_DefaultState(inputs) ==
    LET x0     == IF x = Unset THEN Full(system.nstates, 0) ELSE x
        U      == Reshape(inputs, system.ninputs, Len(time_vector))
        states == input_output_response(system, time_vector, U, x0)
        cost   == TrajectoryCost(states, U, 1, 0)
        total  == IF terminal_cost # NoCost
                  THEN cost + CallCost(terminal_cost,
                                       LastCol(states), LastCol(U))
                  ELSE cost
    IN  Evaluation("cost_function", inputs, Ok(total), <<>>, <<>>)

cost_function(inputs) ==
    IF x = Unset
    THEN Evaluation("cost_function", inputs, Raise("AttributeError"),
                    <<>>, <<>>)
    ELSE
    LET U      == Reshape(inputs, system.ninputs, Len(time_vector))
        states == input_output_response(system, time_vector, U, x)
        cost   == TrajectoryCost(states, U, 1, 0)
        total  == IF terminal_cost # NoCost
                  THEN cost + CallCost(terminal_cost,
                                       LastCol(states), LastCol(U))
                  ELSE cost
    IN  Evaluation("cost_function", inputs, Ok(total), <<>>, <<>>)

----------------------------------------------------------------------------
(* constraint_function *)

\* Stacked with the input taken one sample late (wrapping to the first)
Stacked_InputShifted(states, U, i) ==
    Col(states, i) \o Col(U, (i % Len(U[1])) + 1)

\* np.hstack([states[:,i], inputs[:,i]])
Stacked(states, U, i) == Col(states, i) \o Col(U, i)

\* fun(v) for a nonlinear constraint
CallFun(fun, v) ==
    IF fun.name = "_evaluate_output_constraint"
    THEN _evaluate_output_constraint(system, fun.A, v)
    ELSE Raise("TypeError")

\* EvalConstraint without the final else: an unknown type is treated as
\* a matrix instead of raising
EvalConstraint_NoElse(constraint, states, U, i) ==
    IF constraint.type = "NonlinearConstraint"
    THEN CallFun(constraint.fun, Stacked(states, U, i))
    ELSE MatVec(constraint.fun.A, Stacked(states, U, i))

\* the if / elif / else on the constraint's type
EvalConstraint(constraint, states, U, i) ==
    IF constraint.type = "LinearConstraint"
    THEN MatVec(constraint.fun.A, Stacked(states, U, i))
    ELSE IF constraint.type = "NonlinearConstraint"
    THEN CallFun(constraint.fun, Stacked(states, U, i))
    ELSE Raise("TypeError")

RECURSIVE ConstraintLoop(_, _, _, _, _, _, _)
\* for constraint in <list>: value.append(...), at time index i.
\* acc = [exc, value, calls, i]; calls logs <<list, position, time index>>
\* of every evaluation appended to value.
ConstraintLoop(constraints, which, states, U, i, j, acc) ==
    IF j > Len(constraints) THEN acc
    ELSE LET r == EvalConstraint(constraints[j], states, U, i)
         IN  IF r.exc # "none" THEN [acc EXCEPT !.exc = r.exc]
             ELSE ConstraintLoop(constraints, which, states, U, i, j + 1,
                    [acc EXCEPT !.value = Append(@, r.val),
                                !.calls = Append(@, <<which, j, i>>)])

RECURSIVE TrajectoryLoop(_, _, _, _)
\* for i, time in enumerate(self.time_vector): ...; the loop variable i
\* stays bound after the loop (acc.i; time indices are counted from 1)
TrajectoryLoop(states, U, i, acc) ==
    IF i > Len(time_vector) THEN acc
    ELSE LET a == ConstraintLoop(trajectory_constraints, "trajectory",
                                 states, U, i, 1, [acc EXCEPT !.i = i])
         IN  IF a.exc # "none" THEN a
             ELSE TrajectoryLoop(states, U, i + 1, a)

\* TerminalIndex reading the first time point instead of the last
TerminalIndex_First(acc) == 1

\* the index the terminal constraints read states[:,i], inputs[:,i] at
TerminalIndex(acc) == acc.i

constraint_function(inputs) ==
    IF x = Unset
    THEN Evaluation("constraint_function", inputs, Raise("AttributeError"),
                    <<>>, <<>>)
    ELSE
    LET U      == Reshape(inputs, system.ninputs, Len(time_vector))
        states == input_output_response(system, time_vector, U, x)
        a      == TrajectoryLoop(states, U, 1,
                     [exc |-> "none", value |-> <<>>, calls |-> <<>>,
                      i |-> 0])
        b      == IF a.exc # "none" THEN a
                  ELSE ConstraintLoop(terminal_constraints, "terminal",
                                      states, U, TerminalIndex(a), 1, a)
        r      == IF b.exc # "none" THEN Raise(b.exc) ELSE HStack(b.value)
    IN  Evaluation("constraint_function", inputs, r, b.value, b.calls)

----------------------------------------------------------------------------
(* compute_trajectory, mpc, __call__ *)

\* _process_time_response (control.timeresp): packages the result as
\* (state trajectory or None, input trajectory), inputs unchanged
_process_time_response(sys, time, inputs, states, return_x) ==
    <<states, inputs>>

\* NoSolution raising instead of warning
NoSolution_Raises(res) ==
    [exc |-> "RuntimeError", val |-> None, warnings |-> <<>>, sims |-> 0,
     packaged |-> NotPackaged]

\* if not res.success: warnings.warn(res.message); return None
NoSolution(res) ==
    [exc |-> "none", val |-> None, warnings |-> <<res.message>>,
     sims |-> 0, packaged |-> NotPackaged]

\* compute_trajectory_tail simulating again whether or not the states
\* were asked for
compute_trajectory_tail_AlwaysSim(fr, res) ==
    IF ~res.success
    THEN NoSolution(res)
    ELSE
    LET inputs == Reshape(res.x, system.ninputs, Len(time_vector))
        states == input_output_response(system, time_vector, inputs, fr.x)
    IN  [exc |-> "none",
         val |-> _process_time_response(system, time_vector, inputs,
                     IF fr.return_x THEN states ELSE None, fr.return_x),
         warnings |-> <<>>,
         sims |-> 1,
         packaged |-> fr.passed]

\* compute_trajectory after sp.optimize.minimize has returned res
compute_trajectory_tail(fr, res) ==
    IF ~res.success
    THEN NoSolution(res)
    ELSE
    LET inputs == Reshape(res.x, system.ninputs, Len(time_vector))
        states == IF fr.return_x
                  THEN input_output_response(system, time_vector,
                                             inputs, fr.x)
                  ELSE None
    IN  [exc |-> "none",
         val |-> _process_time_response(system, time_vector, inputs,
                                        states, fr.return_x),
         warnings |-> <<>>,
         sims |-> IF fr.return_x THEN 1 ELSE 0,
         packaged |-> fr.passed]

\* FirstSample without the transpose: the first row, not the first column
FirstSample_NoTranspose(inputs) == inputs[1]

\* inputs.transpose()[0]
FirstSample(inputs) == Transpose(inputs)[1]

\* mpc once compute_trajectory has returned r:
\*   _, inputs = r;  return None if inputs is None else ...
mpc_tail(r) ==
    IF r.exc # "none" THEN r
    ELSE IF r.val = None
    THEN [r EXCEPT !.exc = "TypeError"]
    ELSE LET inputs == r.val[2]
         IN  [r EXCEPT !.val = IF inputs = None THEN None
                                ELSE FirstSample(inputs)]

\* __call__: return self.mpc(x, squeeze=squeeze)
__call___tail(r) == r

\* the starting point of a solve, warm-started from the last solution
SolverStart_Warm ==
    IF ret.res.success THEN ret.res.x ELSE initial_guess

\* the starting point handed to sp.optimize.minimize
SolverStart == initial_guess

\* the counts once an entry point has been called and has run the solver
\* `solves` times
Called(h, xv, solves) ==
    IF h.on
    THEN [h EXCEPT !.calls = @ + 1, !.solves = @ + solves,
                   !.last_x = xv, !.prev_x = x]
    ELSE h

\* Enter answering from the previous result when the initial state and the
\* entry point are those of the previous call
Enter_Cached(entry, xv, return_x, squeeze, passed) ==
    /\ phase = "ready"
    /\ frame = NoFrame
    /\ hist.on => hist.calls < MaxCalls
    /\ x' = xv
    /\ IF ret.op = entry /\ ret.res.success /\ x = xv
       THEN /\ hist' = Called(hist, xv, 0)
            /\ UNCHANGED <<frame, ev, ret>>
       ELSE /\ hist' = Called(hist, xv, 1)
            /\ frame' = [entry |-> entry, x |-> xv, return_x |-> return_x,
                         squeeze |-> squeeze, passed |-> passed,
                         guess |-> SolverStart]
            /\ ev' = NoEv
            /\ ret' = NoRet
    /\ UNCHANGED <<system, phase, fields, derived, threads, race>>

\* Enter assigning self.x only while it is unset
Enter_KeepsFirstState(entry, xv, return_x, squeeze, passed) ==
    /\ phase = "ready"
    /\ frame = NoFrame
    /\ hist.on => hist.calls < MaxCalls
    /\ x' = IF x = Unset THEN xv ELSE x
    /\ frame' = [entry |-> entry, x |-> xv, return_x |-> return_x,
                 squeeze |-> squeeze, passed |-> passed,
                 guess |-> SolverStart]
    /\ ev' = NoEv
    /\ ret' = NoRet
    /\ hist' = Called(hist, xv, 1)
    /\ UNCHANGED <<system, phase, fields, derived, threads, race>>

\* entering a solve: self.x = x, then sp.optimize.minimize is running
\* from self.initial_guess; compute_trajectory runs with the keywords
\* return_x and passed
Enter(entry, xv, return_x, squeeze, passed) ==
    /\ phase = "ready"
    /\ frame = NoFrame
    /\ hist.on => hist.calls < MaxCalls
    /\ x' = xv
    /\ frame' = [entry |-> entry, x |-> xv, return_x |-> return_x,
                 squeeze |-> squeeze, passed |-> passed,
                 guess |-> SolverStart]
    /\ ev' = NoEv
    /\ ret' = NoRet
    /\ hist' = Called(hist, xv, 1)
    /\ UNCHANGED <<system, phase, fields, derived, threads, race>>

compute_trajectory(xv, return_x) ==
    Enter("compute_trajectory", xv, return_x, "None", "None")

mpc(xv, squeeze) == Enter("mpc", xv, FALSE, squeeze, squeeze)

\* __call__ leaving the squeeze keyword out of its call of mpc
__call___DropsSqueeze(xv, squeeze) ==
    Enter("__call__", xv, FALSE, squeeze, "None")

__call__(xv, squeeze) == Enter("__call__", xv, FALSE, squeeze, squeeze)

\* the plant simulations one evaluation runs: one, after self.x is read
Simulations(e) == IF e.exc = "AttributeError" THEN 0 ELSE 1

\* One evaluation, by the solver inside a solve or by the caller directly.
\* An exception raised inside a solve propagates through minimize and the
\* entry points, none of which catches it.
Evaluate(e) ==
    /\ phase = "ready"
    /\ hist.on => hist.evals < MaxEvals
    /\ ev' = e
    /\ IF frame # NoFrame /\ e.exc # "none"
       THEN /\ frame' = NoFrame
            /\ ret' = [Returned(frame.entry, frame.x, Raise(e.exc), <<>>,
                                NoRes, 0)
                          EXCEPT !.squeeze = frame.squeeze]
       ELSE /\ frame' = frame
            /\ ret' = NoRet
    /\ hist' = IF hist.on
               THEN [hist EXCEPT
                       !.evals = @ + (IF x = Unset THEN 0 ELSE 1),
                       !.sims = @ + Simulations(e)]
               ELSE hist
    /\ UNCHANGED <<system, phase, fields, derived, x, threads, race>>

CallCostFunction(inputs) == Evaluate(cost_function(inputs))

CallConstraintFunction(inputs) == Evaluate(constraint_function(inputs))

SolverMessage(success) ==
    IF success THEN "Optimization terminated successfully"
    ELSE "Iteration limit reached"

\* sp.optimize.minimize returns res; the entry point runs to its end
MinimizeReturns(success, resx) ==
    LET res == [success |-> success, message |-> SolverMessage(success),
                x |-> resx]
        ct  == compute_trajectory_tail(frame, res)
        out == IF frame.entry = "compute_trajectory" THEN ct
               ELSE IF frame.entry = "mpc" THEN mpc_tail(ct)
               ELSE __call___tail(mpc_tail(ct))
    IN
    /\ phase = "ready"
    /\ frame # NoFrame
    /\ frame' = NoFrame
    /\ ev' = NoEv
    /\ ret' = [Returned(frame.entry, frame.x, out, out.warnings, res,
                        out.sims)
                  EXCEPT !.squeeze = frame.squeeze,
                         !.packaged = out.packaged]
    /\ hist' = IF hist.on
               THEN [hist EXCEPT
                       !.sims = @ + out.sims,
                       !.wanted = @ + (IF success /\ frame.return_x
                                       THEN 1 ELSE 0)]
               ELSE hist
    /\ UNCHANGED <<system, phase, fields, derived, x, threads, race>>

----------------------------------------------------------------------------
(* Calls of the constraint factories *)

Factory(op, polytope, descriptor) ==
    /\ phase = "new"
    /\ ret' = Returned(op, polytope, Ok(descriptor), <<>>, NoRes, 0)
    /\ UNCHANGED <<system, phase, fields, derived, x, frame, ev, aux>>

StatePolyConstraint(polytope) ==
    Factory("state_poly_constraint", polytope,
            state_poly_constraint(system, polytope))

InputPolyConstraint(polytope) ==
    Factory("input_poly_constraint", polytope,
            input_poly_constraint(system, polytope))

OutputPolyConstraint(polytope) ==
    Factory("output_poly_constraint", polytope,
            output_poly_constraint(system, polytope))

----------------------------------------------------------------------------
(* statefbk.lqe : processing of the positional arguments *)

\* an argument of lqe: a 2-D array of the given shape, or an LTI system
\* with n states, m inputs and p outputs (the shapes of its A, B, C)
Array(r, c) ==
    [kind |-> "array", shape |-> <<r, c>>,
     A |-> <<0, 0>>, B |-> <<0, 0>>, C |-> <<0, 0>>]
Lti(n, m, p) ==
    [kind |-> "LTI", shape |-> <<0, 0>>,
     A |-> <<n, n>>, B |-> <<n, m>>, C |-> <<p, n>>]

\* the try / except AttributeError: the shapes of A, G, C and the
\* position of Q, from a system or from the first three arguments
lqe_system(args) ==
    IF args[1].kind = "LTI"
    THEN [A |-> args[1].A, G |-> args[1].B, C |-> args[1].C, index |-> 1]
    ELSE [A |-> args[1].shape, G |-> args[2].shape, C |-> args[3].shape,
          index |-> 3]

\* "Check dimensions for consistency": the exception raised, or "none"
lqe_dimensions(s, Q, R, N) ==
    LET nstates  == s.A[1]
        ninputs  == s.G[2]
        noutputs == s.C[1]
    IN  IF s.A[1] # nstates \/ s.A[2] # nstates
           \/ s.G[1] # nstates \/ s.C[2] # nstates
        THEN "ControlDimension"
        ELSE IF Q[1] # ninputs \/ Q[2] # ninputs
                \/ R[1] # noutputs \/ R[2] # noutputs
                \/ Len(N) # ninputs
                \/ (\E r \in 1..Len(N) : Len(N[r]) # noutputs)
        THEN "ControlDimension"
        ELSE "none"

\* what lqe returns once the checks have passed: the zero matrix N it
\* worked with, and the shape of the gain care() yields
lqe_gain(s, N) == [N |-> N, L |-> <<s.A[1], s.C[1]>>]

\* lqe checking the dimensions before it looks for the argument N
lqe_DimensionsFirst(args) ==
    IF Len(args) < 3 THEN Raise("ControlArgument")
    ELSE
    LET s == lqe_system(args)
    IN  IF Len(args) < s.index + 2 THEN Raise("IndexError")
        ELSE
        LET Q == args[s.index + 1].shape
            R == args[s.index + 2].shape
            N == Zeros(Q[1], R[2])
        IN  IF lqe_dimensions(s, Q, R, N) # "none"
            THEN Raise(lqe_dimensions(s, Q, R, N))
            ELSE IF Len(args) > s.index + 2
            THEN Raise("ControlNotImplemented")
            ELSE Ok(lqe_gain(s, N))

\* lqe(*args); positions are counted from 1, so args[index] of the code
\* is args[s.index + 1]
lqe(args) ==
    IF Len(args) < 3 THEN Raise("ControlArgument")
    ELSE
    LET s == lqe_system(args)
    IN  IF Len(args) < s.index + 2 THEN Raise("IndexError")
        ELSE
        LET Q == args[s.index + 1].shape
            R == args[s.index + 2].shape
        IN  IF Len(args) > s.index + 2
            THEN Raise("ControlNotImplemented")
            ELSE
            LET N == Zeros(Q[1], R[2])
            IN  IF lqe_dimensions(s, Q, R, N) # "none"
                THEN Raise(lqe_dimensions(s, Q, R, N))
                ELSE Ok(lqe_gain(s, N))

\* the argument lists callers pass: every prefix of sys, Q, R, N and of
\* A, G, C, Q, R, N, with matching and with mismatching shapes
LqeArgs ==
    LET system_form ==
            { <<Lti(2, 1, 1), Array(q, q), Array(1, 1), Array(1, 1)>> :
                q \in 1..2 }
        matrix_form ==
            { <<Array(2, 2), Array(g, 1), Array(1, 2), Array(q, q),
                Array(1, 1), Array(1, 1)>> : g \in 1..2, q \in 1..2 }
    IN  UNION { { SubSeq(a, 1, n) : n \in 0..Len(a) } :
                  a \in system_form \cup matrix_form }

Lqe(args) ==
    /\ phase = "new"
    /\ ret' = Returned("lqe", args, lqe(args), <<>>, NoRes, 0)
    /\ UNCHANGED <<system, phase, fields, derived, x, frame, ev, aux>>

----------------------------------------------------------------------------
(* Specification *)

Init ==
    /\ system \in Systems
    /\ phase = "new"
    /\ time_vector = <<>>
    /\ integral_cost = NoCost
    /\ trajectory_constraints = <<>>
    /\ terminal_cost = NoCost
    /\ terminal_constraints = <<>>
    /\ constraint_lb = Unset
    /\ constraint_ub = Unset
    /\ initial_guess = Unset
    /\ x = Unset
    /\ frame = NoFrame
    /\ ev = NoEv
    /\ ret = NoRet
    /\ hist = HistOff
    /\ threads = NoThreads
    /\ race = NoRace

Next ==
    \/ \E time \in TimeGrids, cost \in IntegralCosts(system),
          tcost \in TerminalCosts(system),
          constraints \in ConstraintArgs(system) :
            __init__(time, cost, constraints[1], tcost, constraints[2])
    \/ \E polytope \in Polytopes : StatePolyConstraint(polytope)
    \/ \E polytope \in Polytopes : InputPolyConstraint(polytope)
    \/ \E polytope \in Polytopes : OutputPolyConstraint(polytope)
    \/ \E args \in LqeArgs : Lqe(args)
    \/ \E xv \in InitialStates, return_x \in BOOLEAN :
            compute_trajectory(xv, return_x)
    \/ \E xv \in InitialStates, squeeze \in SqueezeValues :
            mpc(xv, squeeze)
    \/ \E xv \in InitialStates, squeeze \in SqueezeValues :
            __call__(xv, squeeze)
    \/ \E inputs \in Candidates : CallCostFunction(inputs)
    \/ \E inputs \in Candidates : CallConstraintFunction(inputs)
    \/ \E resx \in Candidates : MinimizeReturns(TRUE, resx)
    \/ MinimizeReturns(FALSE, initial_guess)

Spec == Init /\ [][Next]_vars

----------------------------------------------------------------------------
(* Counted runs: one problem, its calls and evaluations counted in hist *)

\* the <<trajectory constraints, terminal constraints>> of the problem
\* the counted and the concurrent runs solve: a state constraint along
\* the trajectory, an output constraint at its end
SolveProblems(sys) ==
    { <<Window(Catalogue(sys), 0, 1), Window(Catalogue(sys), 2, 1)>> }

InitSolves ==
    /\ system \in Systems
    /\ phase = "new"
    /\ time_vector = <<>>
    /\ integral_cost = NoCost
    /\ trajectory_constraints = <<>>
    /\ terminal_cost = NoCost
    /\ terminal_constraints = <<>>
    /\ constraint_lb = Unset
    /\ constraint_ub = Unset
    /\ initial_guess = Unset
    /\ x = Unset
    /\ frame = NoFrame
    /\ ev = NoEv
    /\ ret = NoRet
    /\ hist = HistOn
    /\ threads = NoThreads
    /\ race = NoRace

NextSolves ==
    \/ \E time \in TimeGrids, cost \in IntegralCosts(system),
          constraints \in SolveProblems(system) :
            __init__(time, cost, constraints[1], NoCost, constraints[2])
    \/ \E xv \in InitialStates, return_x \in BOOLEAN :
            compute_trajectory(xv, return_x)
    \/ \E xv \in InitialStates, squeeze \in SqueezeValues :
            mpc(xv, squeeze)
    \/ \E xv \in InitialStates, squeeze \in SqueezeValues :
            __call__(xv, squeeze)
    \/ \E inputs \in Candidates : CallCostFunction(inputs)
    \/ \E inputs \in Candidates : CallConstraintFunction(inputs)
    \/ \E resx \in Candidates : MinimizeReturns(TRUE, resx)
    \/ MinimizeReturns(FALSE, initial_guess)

SpecSolves == InitSolves /\ [][NextSolves]_vars

----------------------------------------------------------------------------
(* Concurrent runs: two callers solving on one instance, unsynchronised *)

\* the problems the concurrent callers solve: that of the counted runs,
\* and one whose terminal constraint is of an unknown kind, so that an
\* evaluation raises inside a solve
ConcurrentProblems(sys) ==
    SolveProblems(sys)
    \cup { <<Window(Catalogue(sys), 0, 1), Window(Catalogue(sys), 3, 1)>> }

\* ThreadEnter leaving self.x alone while another caller's solve runs
ThreadEnter_FirstWins(t, xv) ==
    /\ phase = "ready"
    /\ ~threads[t].active
    /\ x' = IF \E u \in Threads : threads[u].active THEN x ELSE xv
    /\ threads' =
          [u \in Threads |->
              IF u = t
              THEN [active |-> TRUE, x |-> xv, overwritten |-> FALSE,
                    by |-> <<>>]
              ELSE IF threads[u].active
              THEN [threads[u] EXCEPT !.overwritten = TRUE, !.by = xv]
              ELSE threads[u]]
    /\ ev' = NoEv
    /\ race' = NoRace
    /\ UNCHANGED <<system, phase, fields, derived, frame, ret, hist>>

\* caller t enters compute_trajectory(xv): self.x = xv, then its solver
\* runs; the solves of the other callers have had self.x overwritten
ThreadEnter(t, xv) ==
    /\ phase = "ready"
    /\ ~threads[t].active
    /\ x' = xv
    /\ threads' =
          [u \in Threads |->
              IF u = t
              THEN [active |-> TRUE, x |-> xv, overwritten |-> FALSE,
                    by |-> <<>>]
              ELSE IF threads[u].active
              THEN [threads[u] EXCEPT !.overwritten = TRUE, !.by = xv]
              ELSE threads[u]]
    /\ ev' = NoEv
    /\ race' = NoRace
    /\ UNCHANGED <<system, phase, fields, derived, frame, ret, hist>>

\* the solver of caller t makes one evaluation; an exception propagates
\* through minimize and ends the caller's compute_trajectory, which no
\* handler catches
ThreadEvaluate(t, e) ==
    /\ phase = "ready"
    /\ threads[t].active
    /\ ev' = e
    /\ race' = [owner |-> t, solve |-> threads[t]]
    /\ IF e.exc # "none"
       THEN /\ threads' = [threads EXCEPT ![t] = NoThread]
            /\ ret' = Returned("compute_trajectory", threads[t].x,
                               Raise(e.exc), <<>>, NoRes, 0)
       ELSE /\ threads' = threads
            /\ ret' = ret
    /\ UNCHANGED <<system, phase, fields, derived, x, frame, hist>>

ThreadCostFunction(t, inputs) == ThreadEvaluate(t, cost_function(inputs))

ThreadConstraintFunction(t, inputs) ==
    ThreadEvaluate(t, constraint_function(inputs))

\* the solver of caller t returns res; compute_trajectory runs to its end
ThreadReturns(t, success, resx) ==
    LET res == [success |-> success, message |-> SolverMessage(success),
                x |-> resx]
        fr  == [entry |-> "compute_trajectory", x |-> threads[t].x,
                return_x |-> FALSE, squeeze |-> "None",
                passed |-> "None", guess |-> SolverStart]
        out == compute_trajectory_tail(fr, res)
    IN
    /\ phase = "ready"
    /\ threads[t].active
    /\ threads' = [threads EXCEPT ![t] = NoThread]
    /\ ev' = NoEv
    /\ race' = NoRace
    /\ ret' = [Returned(fr.entry, fr.x, out, out.warnings, res, out.sims)
                  EXCEPT !.packaged = out.packaged]
    /\ UNCHANGED <<system, phase, fields, derived, x, frame, hist>>

NextConcurrent ==
    \/ \E time \in TimeGrids, cost \in IntegralCosts(system),
          constraints \in ConcurrentProblems(system) :
            __init__(time, cost, constraints[1], NoCost, constraints[2])
    \/ \E t \in Threads, xv \in InitialStates : ThreadEnter(t, xv)
    \/ \E t \in Threads, inputs \in Candidates :
            ThreadCostFunction(t, inputs)
    \/ \E t \in Threads, inputs \in Candidates :
            ThreadConstraintFunction(t, inputs)
    \/ \E t \in Threads, resx \in Candidates :
            ThreadReturns(t, TRUE, resx)
    \/ \E t \in Threads : ThreadReturns(t, FALSE, initial_guess)

SpecConcurrent == Init /\ [][NextConcurrent]_vars

----------------------------------------------------------------------------
(* Reference definitions the claims are stated with *)

Horizon == Len(time_vector)
NTraj == Len(trajectory_constraints)
NTerm == Len(terminal_constraints)

\* the number of segments of the stacked bounds and of the stacked values
NSegments == Horizon * NTraj + NTerm

\* the constraint the k-th segment belongs to, and its time point:
\* time-point-major, then list order, terminal constraints last
SegmentConstraint(k) ==
    IF k <= Horizon * NTraj
    THEN trajectory_constraints[((k - 1) % NTraj) + 1]
    ELSE terminal_constraints[k - Horizon * NTraj]

SegmentTime(k) ==
    IF k <= Horizon * NTraj THEN ((k - 1) \div NTraj) + 1 ELSE Horizon

ExpectedBounds(which) ==
    Flatten([k \in 1..NSegments |-> Bound(SegmentConstraint(k), which)])

\* sum of the output dimensions of a constraint list
Dims(constraints) ==
    SumSeq([j \in 1..Len(constraints) |-> Len(constraints[j].lb)])

\* state and input at time point k of the trajectory simulated from xv
\* under the flat input vector
RefStates(inputs, xv) ==
    input_output_response(system, time_vector,
        [r \in 1..system.ninputs |->
            [c \in 1..Horizon |-> inputs[(r - 1) * Horizon + c]]], xv)
RefState(inputs, xv, k) ==
    [j \in 1..system.nstates |-> RefStates(inputs, xv)[j][k]]
RefInput(inputs, k) ==
    [r \in 1..system.ninputs |-> inputs[(r - 1) * Horizon + k]]

\* the value of one constraint at state xk and input uk
RefValue(constraint, xk, uk) ==
    IF constraint.type = "LinearConstraint"
    THEN [r \in 1..Len(constraint.fun.A) |->
            Dot(constraint.fun.A[r], xk \o uk)]
    ELSE [r \in 1..Len(constraint.fun.A) |->
            Dot(constraint.fun.A[r], _out(system, 0, xk, uk))]

HasUnknownKind(constraints) ==
    \E j \in 1..Len(constraints) :
        constraints[j].type \notin {"LinearConstraint", "NonlinearConstraint"}

----------------------------------------------------------------------------
(* Claims *)

\* C1: the vector constraint_function returns has the length of the
\* stacked bounds, and its k-th segment is the value of the constraint,
\* at the time point, that the k-th segment of the stacked bounds belongs
\* to (time-point-major, then list order, terminal constraints last).
C1_ValuesFollowBoundOrder ==
    (ev.fn = "constraint_function" /\ ev.exc = "none") =>
        /\ Len(ev.val) = Len(constraint_lb)
        /\ Len(ev.val) = Len(constraint_ub)
        /\ Len(ev.segments) = NSegments
        /\ ev.val = Flatten(ev.segments)
        /\ \A k \in 1..NSegments :
              /\ Len(ev.segments[k]) = Len(SegmentConstraint(k).lb)
              /\ ev.segments[k] =
                    RefValue(SegmentConstraint(k),
                             RefState(ev.inputs, ev.x, SegmentTime(k)),
                             RefInput(ev.inputs, SegmentTime(k)))

\* a returned vector with two trajectory constraints of different sizes
\* and a terminal one, over two time points, for a non-constant input
C1_Witness ==
    /\ ev.fn = "constraint_function" /\ ev.exc = "none"
    /\ Horizon >= 2 /\ NTraj = 2 /\ NTerm = 1
    /\ Len(trajectory_constraints[1].lb) # Len(trajectory_constraints[2].lb)
    /\ ev.inputs[1] # ev.inputs[2]

\* C2: after construction the stacked lower (upper) bound vector is
\* [c1.lb .. cm.lb] repeated once per time point followed by
\* [t1.lb .. tp.lb] once, of length N * sum(dims) + sum(terminal dims).
C2_BoundOrder ==
    phase = "ready" =>
        /\ constraint_lb = ExpectedBounds("lb")
        /\ constraint_ub = ExpectedBounds("ub")
        /\ Len(constraint_lb) =
              Horizon * Dims(trajectory_constraints)
              + Dims(terminal_constraints)
        /\ Len(constraint_ub) = Len(constraint_lb)

C2_Witness ==
    /\ phase = "ready" /\ ret.op = "__init__"
    /\ Horizon >= 2 /\ NTraj = 2 /\ NTerm = 1

\* C5: constructing a problem with no trajectory and no terminal
\* constraints succeeds and yields stacked bound vectors of length 0.
C5_NoConstraintsConstructs ==
    (ret.op = "__init__" /\ NTraj = 0 /\ NTerm = 0) =>
        /\ ret.exc = "none"
        /\ phase = "ready"
        /\ Len(constraint_lb) = 0 /\ Len(constraint_ub) = 0

\* C7: constraint_function evaluates each terminal constraint exactly
\* once, at the final time point and at no other, whatever the number of
\* trajectory constraints.
C7_TerminalAtFinalPoint ==
    /\ \A k \in 1..Len(ev.calls) :
          ev.calls[k][1] = "terminal" => ev.calls[k][3] = Horizon
    /\ (ev.fn = "constraint_function" /\ ev.exc = "none") =>
          \A j \in 1..NTerm :
             /\ Cardinality({k \in 1..Len(ev.calls) :
                    ev.calls[k][1] = "terminal" /\ ev.calls[k][2] = j}) = 1
             /\ ev.segments[Horizon * NTraj + j] =
                    RefValue(terminal_constraints[j],
                             RefState(ev.inputs, ev.x, Horizon),
                             RefInput(ev.inputs, Horizon))

\* a terminal constraint evaluated with no trajectory constraints, on a
\* trajectory whose final state differs from its first
C7_Witness ==
    /\ ev.fn = "constraint_function" /\ ev.exc = "none"
    /\ NTraj = 0 /\ NTerm = 1 /\ Horizon >= 2
    /\ RefState(ev.inputs, ev.x, Horizon) # RefState(ev.inputs, ev.x, 1)

\* the solver returned to the last finished call and reported failure
SolverFailed == ret.res # NoRes /\ ~ret.res.success

\* C3: when the solver reports non-convergence compute_trajectory warns
\* with the solver's message and returns None; it raises nothing, runs no
\* simulation of its own and the call is over (no retry).
C3_FailureReturnsNone ==
    (ret.op = "compute_trajectory" /\ SolverFailed) =>
        /\ ret.exc = "none"
        /\ ret.val = None
        /\ ret.warnings = <<ret.res.message>>
        /\ ret.sims = 0
        /\ frame = NoFrame

C3_Witness ==
    /\ ret.op = "compute_trajectory" /\ SolverFailed
    /\ ret.warnings = <<"Iteration limit reached">>
    /\ ret.arg \in InitialStates
    /\ x = ret.arg

\* C4: when the optimization fails mpc returns None and does not raise,
\* and so does a call of the problem instance.
C4_MpcFailureReturnsNone ==
    (ret.op \in {"mpc", "__call__"} /\ SolverFailed) =>
        /\ ret.exc = "none"
        /\ ret.val = None

\* C6: cost_function returns the sum over the N time points of the
\* running cost on the trajectory simulated from the current initial
\* state, plus the terminal cost at the final point when one is set.
C6_CostIsSum ==
    (ev.fn = "cost_function" /\ ev.exc = "none") =>
        ev.val =
            SumSeq([k \in 1..Horizon |->
                CallCost(integral_cost, RefState(ev.inputs, ev.x, k),
                         RefInput(ev.inputs, k))])
            + (IF terminal_cost = NoCost THEN 0
               ELSE CallCost(terminal_cost,
                             RefState(ev.inputs, ev.x, Horizon),
                             RefInput(ev.inputs, Horizon)))

C6_Witness ==
    /\ ev.fn = "cost_function" /\ ev.exc = "none"
    /\ terminal_cost # NoCost /\ Horizon >= 2
    /\ ev.inputs[1] # ev.inputs[Horizon]
    /\ ev.val > 0

\* C8: when the solver succeeds mpc returns the first time sample
\* (column 0) of the input trajectory compute_trajectory produces for the
\* same state, and nothing else.
C8_MpcFirstSample ==
    (ret.op = "mpc" /\ ret.res.success) =>
        /\ ret.exc = "none"
        /\ ret.val = [r \in 1..system.ninputs |->
                         ret.res.x[(r - 1) * Horizon + 1]]
        /\ ret.val =
              [r \in 1..system.ninputs |->
                  compute_trajectory_tail(
                      [entry |-> "compute_trajectory", x |-> ret.arg,
                       squeeze |-> ret.squeeze, passed |-> ret.squeeze,
                       guess |-> initial_guess,
                       return_x |-> FALSE], ret.res).val[2][r][1]]

C8_Witness ==
    /\ ret.op = "mpc" /\ ret.res.success
    /\ Horizon >= 2
    /\ ret.res.x[1] # ret.res.x[2]

\* C9: constraint_function, evaluated from a current initial state, fails
\* with the unknown-kind error (TypeError) and returns no value whenever a
\* trajectory or terminal descriptor is of neither known kind; inside a
\* solve the error ends the call at once, with no warning and no sentinel.
C9_UnknownKindRaises ==
    (/\ ev.fn = "constraint_function"
     /\ ev.x # Unset
     /\ \/ HasUnknownKind(trajectory_constraints)
        \/ HasUnknownKind(terminal_constraints)) =>
        /\ ev.exc = "TypeError"
        /\ ev.val = None
        /\ frame = NoFrame
        /\ ret.op # "none" =>
              /\ ret.exc = "TypeError"
              /\ ret.val = None
              /\ ret.warnings = <<>>

\* the error of a terminal descriptor, met after the trajectory
\* constraints were evaluated, ending an mpc call
C9_Witness ==
    /\ ev.fn = "constraint_function" /\ ev.exc = "TypeError"
    /\ ret.op = "mpc" /\ ret.exc = "TypeError"
    /\ NTraj >= 1
    /\ ~HasUnknownKind(trajectory_constraints)
    /\ HasUnknownKind(terminal_constraints)

\* C10: a polytope whose A has a column count different from the state
\* (input) dimension makes state_poly_constraint (input_poly_constraint)
\* fail with a DimensionError.
C10_FactoryRejectsMismatch ==
    /\ (ret.op = "state_poly_constraint"
        /\ Len(ret.arg.A[1]) # system.nstates) =>
            ret.exc = "DimensionError"
    /\ (ret.op = "input_poly_constraint"
        /\ Len(ret.arg.A[1]) # system.ninputs) =>
            ret.exc = "DimensionError"


\* the matrix [A | 0] with a zero block of nz columns, and [0 | A]
RefZerosRight(A, nz) ==
    [r \in 1..Len(A) |->
        [c \in 1..(Len(A[r]) + nz) |->
            IF c <= Len(A[r]) THEN A[r][c] ELSE 0]]
RefZerosLeft(A, nz) ==
    [r \in 1..Len(A) |->
        [c \in 1..(Len(A[r]) + nz) |->
            IF c <= nz THEN 0 ELSE A[r][c - nz]]]

\* the segments of the value ev holds that belong to the descriptor d
SegmentsOf(d) == { k \in 1..NSegments : SegmentConstraint(k) = d }

\* C11: state_poly_constraint returns a linear descriptor with matrix
\* [A | 0] (zero block as wide as the input), input_poly_constraint one
\* with matrix [0 | A] (zero block as wide as the state), both with lower
\* bound -inf in every row and upper bound b; the value constraint_function
\* computes for them is A x whatever the input, and A u whatever the state.
C11_PolytopeFactories ==
    /\ ret.op = "state_poly_constraint" =>
          /\ ret.exc = "none"
          /\ ret.val.type = "LinearConstraint"
          /\ ret.val.fun = Matrix(RefZerosRight(ret.arg.A, system.ninputs))
          /\ ret.val.lb = [r \in 1..Len(ret.arg.A) |-> NegInf]
          /\ ret.val.ub = ret.arg.b
    /\ ret.op = "input_poly_constraint" =>
          /\ ret.exc = "none"
          /\ ret.val.type = "LinearConstraint"
          /\ ret.val.fun = Matrix(RefZerosLeft(ret.arg.A, system.nstates))
          /\ ret.val.lb = [r \in 1..Len(ret.arg.A) |-> NegInf]
          /\ ret.val.ub = ret.arg.b
    /\ (ev.fn = "constraint_function" /\ ev.exc = "none") =>
          /\ \A k \in SegmentsOf(Catalogue(system)[1]) :
                ev.segments[k] =
                    [r \in 1..Len(StatePolytope(system).A) |->
                        Dot(StatePolytope(system).A[r],
                            RefState(ev.inputs, ev.x, SegmentTime(k)))]
          /\ \A k \in SegmentsOf(Catalogue(system)[2]) :
                ev.segments[k] =
                    [r \in 1..Len(InputPolytope(system).A) |->
                        Dot(InputPolytope(system).A[r],
                            RefInput(ev.inputs, SegmentTime(k)))]

\* a state and an input constraint evaluated at two time points under a
\* nonzero input
C11_Witness ==
    /\ ev.fn = "constraint_function"
    /\ ev.exc = "none"
    /\ Horizon = 2
    /\ trajectory_constraints =
          <<Catalogue(system)[1], Catalogue(system)[2]>>
    /\ ev.inputs = <<1, 1>>
    /\ ev.segments[3] # ev.segments[1]
    /\ ev.segments[2] = <<1, -1>>

\* C15: output_poly_constraint returns a nonlinear descriptor with lower
\* bound -inf in every row and upper bound b; its evaluator takes the first
\* nstates entries of the stacked vector as the state and the rest as the
\* input, applies the plant's output map at time 0 whatever the time point
\* evaluated, and returns A times that output.
C15_OutputConstraint ==
    /\ ret.op = "output_poly_constraint" =>
          /\ ret.exc = "none"
          /\ ret.val.type = "NonlinearConstraint"
          /\ ret.val.fun.name = "_evaluate_output_constraint"
          /\ ret.val.fun.A = ret.arg.A
          /\ ret.val.lb = [r \in 1..Len(ret.arg.A) |-> NegInf]
          /\ ret.val.ub = ret.arg.b
    /\ (ev.fn = "constraint_function" /\ ev.exc = "none") =>
          \A k \in SegmentsOf(Catalogue(system)[3]) :
              ev.segments[k] =
                  [r \in 1..Len(OutputPolytope.A) |->
                      Dot(OutputPolytope.A[r],
                          _out(system, 0,
                               RefState(ev.inputs, ev.x, SegmentTime(k)),
                               RefInput(ev.inputs, SegmentTime(k))))]

\* the output constraint evaluated at the second time point, where the
\* time is not 0 and the input differs from the second state
C15_Witness ==
    /\ ev.fn = "constraint_function"
    /\ ev.exc = "none"
    /\ Horizon = 2
    /\ \E k \in SegmentsOf(Catalogue(system)[3]) :
          /\ SegmentTime(k) = 2
          /\ time_vector[SegmentTime(k)] # 0
          /\ RefInput(ev.inputs, 2)[1] # RefState(ev.inputs, ev.x, 2)[2]
          /\ ev.segments[k] =
                <<RefState(ev.inputs, ev.x, 2)[1] + RefInput(ev.inputs, 2)[1]>>

\* the entry points that run a solve
Entries == {"compute_trajectory", "mpc", "__call__"}

\* the all-zero vector of length n
RefZeroVector(n) == [k \in 1..n |-> 0]

\* C12: once the problem is constructed no call changes the stacked lower
\* and upper bounds or the stored initial guess; the guess stays the zero
\* vector of length ninputs * N, and every solve is started from it, never
\* from an earlier solution.
C12_BoundsAndGuessKept ==
    [][phase = "ready" =>
          /\ constraint_lb' = constraint_lb
          /\ constraint_ub' = constraint_ub
          /\ initial_guess' = initial_guess
          /\ initial_guess' = RefZeroVector(system.ninputs * Horizon)
          /\ frame' # NoFrame =>
                frame'.guess = RefZeroVector(system.ninputs * Horizon)]_vars

\* two calls made, the second successful with a solution that is not zero
C12_Witness ==
    /\ hist.calls = 2
    /\ ret.op \in Entries
    /\ ret.res.success
    /\ ret.res.x # RefZeroVector(system.ninputs * Horizon)
    /\ initial_guess = RefZeroVector(system.ninputs * Horizon)
    /\ constraint_lb = ExpectedBounds("lb")
    /\ constraint_ub = ExpectedBounds("ub")

\* C13: however many calls of compute_trajectory, mpc or the instance
\* have been made, successful or not, the solver has been run exactly once
\* per call: nothing is retried and nothing is answered from a cache.
C13_OneSolvePerCall ==
    hist.on =>
        /\ hist.solves = hist.calls
        /\ frame # NoFrame => hist.calls >= 1

\* a failed call repeated with the same initial state
C13_Witness ==
    /\ hist.calls = 2
    /\ hist.solves = 2
    /\ ret.op = "compute_trajectory"
    /\ ret.res # NoRes
    /\ ~ret.res.success
    /\ hist.prev_x = hist.last_x

\* what a call of mpc(xv, squeeze=squeeze) leaves once the solver has
\* returned res
RefMpcOutcome(xv, squeeze, res) ==
    LET fr  == [entry |-> "mpc", x |-> xv, return_x |-> FALSE,
                squeeze |-> squeeze, passed |-> squeeze,
                guess |-> initial_guess]
        out == mpc_tail(compute_trajectory_tail(fr, res))
    IN  [Returned("mpc", xv, out, out.warnings, res, out.sims)
           EXCEPT !.squeeze = squeeze, !.packaged = out.packaged]

\* C14: calling the instance with x and squeeze does what mpc does with
\* them: it assigns self.x = x, solves with the same keywords, and ends
\* with the value, the exception and the warnings mpc ends with.
C14_CallIsMpc ==
    /\ frame.entry = "__call__" =>
          /\ x = frame.x
          /\ frame.return_x = FALSE
          /\ frame.passed = frame.squeeze
    /\ ret.op = "__call__" =>
          /\ x = ret.arg
          /\ IF ret.res = NoRes
             THEN ret.exc # "none" /\ ret.val = None
             ELSE [ret EXCEPT !.op = "mpc"] =
                      RefMpcOutcome(ret.arg, ret.squeeze, ret.res)

\* the instance called with squeeze=True, the solve successful
C14_Witness ==
    /\ ret.op = "__call__"
    /\ ret.res.success
    /\ ret.squeeze = "True"
    /\ ret.packaged = "True"
    /\ ret.exc = "none"
    /\ Horizon >= 2
    /\ ret.val = <<ret.res.x[1]>>

\* the cross-covariance N is among the arguments
RefNSupplied(args) ==
    /\ Len(args) >= 3
    /\ \/ args[1].kind = "LTI" /\ Len(args) >= 4
       \/ args[1].kind = "array" /\ Len(args) >= 6

\* the shapes of the matrices an argument list describes are consistent
RefConsistent(args) ==
    IF args[1].kind = "LTI"
    THEN args[2].shape = <<args[1].B[2], args[1].B[2]>>
    ELSE /\ args[2].shape[1] = args[1].shape[1]
         /\ args[4].shape = <<args[2].shape[2], args[2].shape[2]>>

\* C16: lqe raises ControlArgument for fewer than 3 positional arguments;
\* whenever N is among them (4-argument system form, 6-argument matrix
\* form) it raises ControlNotImplemented and returns no gain, whether or
\* not the dimensions are consistent; it gets to the dimension check and
\* the gain only when N is left out, and then works with a zero N.
C16_LqeArguments ==
    ret.op = "lqe" =>
        /\ Len(ret.arg) < 3 =>
              ret.exc = "ControlArgument" /\ ret.val = None
        /\ RefNSupplied(ret.arg) =>
              ret.exc = "ControlNotImplemented" /\ ret.val = None
        /\ ret.exc = "ControlDimension" => ~RefNSupplied(ret.arg)
        /\ ret.exc = "none" =>
              /\ ~RefNSupplied(ret.arg)
              /\ \A r \in 1..Len(ret.val.N) :
                    \A c \in 1..Len(ret.val.N[r]) : ret.val.N[r][c] = 0
              /\ Len(ret.val.N) >= 1

\* the 6-argument matrix form with inconsistent dimensions
C16_Witness ==
    /\ ret.op = "lqe"
    /\ Len(ret.arg) = 6
    /\ ret.arg[1].kind = "array"
    /\ ~RefConsistent(ret.arg)
    /\ ret.exc = "ControlNotImplemented"

\* C17: in a sequence of calls every evaluation made during a call, and
\* the simulation that follows a successful solve, start from the initial
\* state given to that call, not from that of an earlier call: self.x is
\* assigned when the call is entered and keeps that value until the next
\* call.
C17_SolveUsesItsInitialState ==
    /\ frame # NoFrame =>
          /\ frame.x = hist.last_x
          /\ x = frame.x
          /\ ev.fn # "none" => ev.x = frame.x
    /\ ret.op \in Entries =>
          /\ ret.arg = hist.last_x
          /\ x = ret.arg
    /\ (ret.op = "compute_trajectory" /\ ret.res.success
            /\ ret.val[1] # None) =>
          ret.val[1] = RefStates(ret.res.x, ret.arg)

\* an evaluation during the second call, whose initial state is not the
\* first call's
C17_Witness ==
    /\ frame # NoFrame
    /\ hist.calls = 2
    /\ hist.prev_x # Unset
    /\ hist.prev_x # frame.x
    /\ ev.fn = "cost_function"
    /\ ev.x = frame.x

\* C18: when calls on one instance interleave, an evaluation made for a
\* solve reads the self.x of that moment: the solve's own initial state
\* as long as no other call has been entered since, and the initial state
\* of the latest call entered once one has.
C18_InterleavedSolvesShareX ==
    race.owner # 0 =>
        /\ ev.x = x
        /\ ev.x = IF race.solve.overwritten
                  THEN race.solve.by
                  ELSE race.solve.x
        /\ ev.exc # "none" =>
              /\ ~threads[race.owner].active
              /\ ret.op = "compute_trajectory"
              /\ ret.exc = ev.exc
              /\ ret.arg = race.solve.x

\* an evaluation for one solve that simulates from the other solve's
\* initial state
C18_Witness ==
    /\ race.owner # 0
    /\ race.solve.overwritten
    /\ ev.fn = "cost_function"
    /\ ev.exc = "none"
    /\ ev.x # race.solve.x
    /\ ev.x \in InitialStates

\* C19: the plant has been simulated once per evaluation of the cost or
\* the constraints made with self.x set, and once more per successful
\* call that asked for the states: never after a failed solve, never for
\* mpc or the instance call.
C19_SimulationCounts ==
    /\ hist.on => hist.sims = hist.evals + hist.wanted
    /\ (ret.op \in Entries /\ ret.res # NoRes) =>
          /\ ret.sims \in {0, 1}
          /\ ~ret.res.success => ret.sims = 0
          /\ ret.op # "compute_trajectory" => ret.sims = 0
          /\ (ret.res.success /\ ret.op = "compute_trajectory") =>
                (ret.sims = 1 <=> ret.val[1] # None)

\* two evaluations and a successful call that asked for the states, then
\* a failed call
C19_Witness ==
    /\ hist.calls = 2
    /\ hist.evals = 2
    /\ hist.wanted = 1
    /\ hist.sims = 3
    /\ ret.op = "compute_trajectory"
    /\ ret.res # NoRes
    /\ ~ret.res.success

\* the last evaluation was made by the caller, outside any solve
RefDirectCall == ev.fn # "none" /\ frame = NoFrame /\ ret.op = "none"

\* C20: construction leaves self.x unset, so a cost or constraint
\* evaluation called directly on a fresh problem fails with
\* AttributeError; once a call has been made, successful or not, self.x is
\* that call's initial state and direct evaluations start from it.
C20_InitialStateUnsetUntilFirstSolve ==
    hist.on =>
        /\ hist.calls = 0 => x = Unset
        /\ hist.calls > 0 => x = hist.last_x /\ x \in InitialStates
        /\ RefDirectCall =>
              /\ ev.x = x
              /\ IF hist.calls = 0
                 THEN ev.exc = "AttributeError" /\ ev.val = None
                 ELSE ev.exc = "none"

\* a direct evaluation of the cost on a problem no call has been made on
C20_Witness ==
    /\ phase = "ready"
    /\ hist.on
    /\ hist.calls = 0
    /\ RefDirectCall
    /\ ev.fn = "cost_function"
    /\ ev.exc = "AttributeError"

====
